---------------------------- MODULE Spec2Model ----------------------------
(***************************************************************************)
(* A model of the subdomain scanners of this repository:                   *)
(*   src/subsonic.py         ("v3": crt.sh JSON + RapidDNS, DNS-gated      *)
(*                            probe, Wayback check)                        *)
(*   src/scansubv2.py        ("v2": regex sources, HTTP probe)             *)
(*   src/script/subsonic.py  ("script": regex sources, workers write the   *)
(*                            shared sets themselves)                      *)
(* Strings are sequences of one-character strings.                         *)
(***************************************************************************)
EXTENDS Integers, Sequences, FiniteSets, TLC

VARIABLES
    raw,        \* SpecNorm: the raw candidate handed to clean_subdomain
    dom,        \* SpecNorm: the domain handed to clean_subdomain
    cleaned,    \* SpecNorm: what clean_subdomain returned
    npc,        \* SpecNorm: "start" before the call, "done" after it
    variant,    \* which scanner runs scan_domain: "v3", "v2" or "script"
    spc,        \* scan_domain's position: "collect", "probe", "done"
    src,        \* per source: its worker's position, fetch attempts, result
    all_subs,   \* all_subs (v3), all_subdomains (v2), subdomains_set (script)
    probe,      \* per hostname of all_subs: the probe's position and outcomes
    live_subs,  \* v3: the list live_subs
    live_set,   \* v2: live_subdomains; script: unique_urls
    raised,     \* an exception left scan_domain
    archive,    \* SpecWayback: the archive's answer to check_wayback's request
    year_now,   \* SpecWayback: the year time.strftime("%Y") gives
    years_arg,  \* SpecWayback: check_wayback's parameter years
    snapshot,   \* SpecWayback: what check_wayback returned
    wpc,        \* SpecWayback: "start" before the call, "done" after it
    dns_ans,    \* SpecDns: what resolver.resolve does for each record type
    dns_out,    \* SpecDns: what dns_resolve returned and the types it queried
    dpc,        \* SpecDns: "start" before the call, "done" after it
    main_variant,\* SpecMain: which script reads domains.txt
    line,       \* SpecMain: one line of domains.txt, as the file iterator yields it
    main_domain,\* SpecMain: whether the line is skipped, else the domain for scan_domain
    mpc,        \* SpecMain: "start" before the line is read, "done" after it
    pool_variant,\* SpecPool: which scanner runs the probe pool
    pool_n,     \* SpecPool: the number of discovered hostnames
    pool_todo,  \* SpecPool: hostnames not yet submitted to the pool
    pool_queued,\* SpecPool: submitted probes waiting for a worker
    pool_running,\* SpecPool: probes a worker is running
    pool_done   \* SpecPool: probes that returned

normVars == <<raw, dom, cleaned, npc>>
scanVars == <<variant, spc, src, all_subs, probe, live_subs, live_set, raised>>

waybackVars == <<archive, year_now, years_arg, snapshot, wpc>>

dnsVars == <<dns_ans, dns_out, dpc>>

mainVars == <<main_variant, line, main_domain, mpc>>

poolVars == <<pool_variant, pool_n, pool_todo, pool_queued, pool_running, pool_done>>

vars == <<normVars, scanVars, waybackVars, dnsVars, mainVars, poolVars>>

-----------------------------------------------------------------------------
(* Characters *)

UpperSeq == <<"A","B","C","D","E","F","G","H","I","J","K","L","M",
              "N","O","P","Q","R","S","T","U","V","W","X","Y","Z">>
LowerSeq == <<"a","b","c","d","e","f","g","h","i","j","k","l","m",
              "n","o","p","q","r","s","t","u","v","w","x","y","z">>
UpperSet == {UpperSeq[i] : i \in DOMAIN UpperSeq}
LowerSet == {LowerSeq[i] : i \in DOMAIN LowerSeq}
DigitSet == {"0","1","2","3","4","5","6","7","8","9"}
Whitespace == {" ", "\t", "\n", "\r", "\f"}

\* [a-z0-9]
AlnumLower == LowerSet \cup DigitSet
\* [a-z0-9\-]
AlnumLowerHyphen == AlnumLower \cup {"-"}

SetMin(S) == CHOOSE x \in S : \A y \in S : x <= y
SetMax(S) == CHOOSE x \in S : \A y \in S : x >= y

RECURSIVE Rep(_, _)
Rep(ch, n) == IF n = 0 THEN <<>> ELSE <<ch>> \o Rep(ch, n - 1)

\* str.lower(), on ASCII
LowerChar(ch) ==
    IF ch \in UpperSet
    THEN LowerSeq[CHOOSE i \in DOMAIN UpperSeq : UpperSeq[i] = ch]
    ELSE ch
str_lower(s) == [i \in 1..Len(s) |-> LowerChar(s[i])]

\* str.strip()
str_strip(s) ==
    LET keep == {i \in 1..Len(s) : s[i] \notin Whitespace}
    IN  IF keep = {} THEN <<>> ELSE SubSeq(s, SetMin(keep), SetMax(keep))

\* str.endswith(suffix)
str_endswith(s, suffix) ==
    /\ Len(suffix) <= Len(s)
    /\ SubSeq(s, Len(s) - Len(suffix) + 1, Len(s)) = suffix

-----------------------------------------------------------------------------
(* src/subsonic.py: valid_subdomain, clean_subdomain *)

\* the {0,61} of the label pattern
MaxMid == 61

\* where "$" matches: at the end, or before a final newline
AtDollar(s, p) == p = Len(s) + 1 \/ (p = Len(s) /\ s[p] = "\n")

\* the ends j of a match of [a-z0-9]([a-z0-9\-]{0,61}[a-z0-9])? begun at i
LabelEnds(s, i) ==
    IF i > Len(s) \/ s[i] \notin AlnumLower THEN {}
    ELSE {j \in i..SetMin({Len(s), i + MaxMid + 1}) :
            /\ \A k \in (i + 1)..(j - 1) : s[k] \in AlnumLowerHyphen
            /\ j > i => s[j] \in AlnumLower}

\* re.match of "^L(\.L)*$" with L the label pattern, from a label start i
RECURSIVE MatchLabels(_, _)
MatchLabels(s, i) ==
    \E j \in LabelEnds(s, i) :
        \/ AtDollar(s, j + 1)
        \/ j + 1 <= Len(s) /\ s[j + 1] = "." /\ MatchLabels(s, j + 2)

re_match_hostname(s) == MatchLabels(s, 1)

\* valid_subdomain matching the pattern against sub without a leading "*."
valid_subdomain_wild(sub, domain) ==
    /\ str_endswith(sub, <<".">> \o domain)
    /\ re_match_hostname(str_lower(
          IF Len(sub) >= 2 /\ sub[1] = "*" /\ sub[2] = "." THEN SubSeq(sub, 3, Len(sub)) ELSE sub))

\* valid_subdomain with the suffix test dropped
valid_subdomain_nosuffix(sub, domain) ==
    re_match_hostname(str_lower(sub))

valid_subdomain(sub, domain) ==
    /\ str_endswith(sub, <<".">> \o domain)
    /\ re_match_hostname(str_lower(sub))

\* re.sub(r"^\*\.", "", sub)
sub_wildcard(s) ==
    IF Len(s) >= 2 /\ s[1] = "*" /\ s[2] = "." THEN SubSeq(s, 3, Len(s)) ELSE s

\* re.sub(r"^\.+|\.+$", "", sub): the leading run of dots, and the run of
\* dots that ends where "$" matches
sub_dots(s) ==
    LET n     == Len(s)
        lead  == IF \A i \in 1..n : s[i] = "." THEN n
                 ELSE SetMin({i \in 1..n : s[i] # "."}) - 1
        e     == IF n > 0 /\ s[n] = "\n" THEN n - 1 ELSE n
        nodot == {i \in (lead + 1)..e : s[i] # "."}
        last  == IF nodot = {} THEN lead ELSE SetMax(nodot)
    IN  SubSeq(s, lead + 1, last) \o SubSeq(s, e + 1, n)

None == [valid |-> FALSE, host |-> <<>>]
Some(h) == [valid |-> TRUE, host |-> h]

clean_subdomain(sub, domain) ==
    LET s1 == str_strip(str_lower(sub))
        s2 == sub_wildcard(s1)
        s3 == sub_dots(s2)
    IN  IF valid_subdomain(s3, domain) THEN Some(s3) ELSE None

-----------------------------------------------------------------------------
(* SpecNorm: clean_subdomain applied to bounded inputs *)

MaxRawLen == 5

NormAlphabet == {"c", "A", "-", ".", "*", " "}

RECURSIVE SeqsUpTo(_, _)
SeqsUpTo(A, n) ==
    IF n = 0 THEN {<<>>}
    ELSE LET shorter == SeqsUpTo(A, n - 1)
         IN  shorter \cup {Append(s, a) : s \in {t \in shorter : Len(t) = n - 1}, a \in A}

DomC       == <<"c">>
DomAC      == <<"a", ".", "c">>
DomExample == <<"e","x","a","m","p","l","e",".","c","o","m">>

\* "*.Foo.example.com", "example.com", "bad_label!.example.com"
RawWildFoo == <<"*", ".", "F", "o", "o", ".">> \o DomExample
RawBadLabel == <<"b","a","d","_","l","a","b","e","l","!",".">> \o DomExample

NormInputs ==
    {<<c, d>> : c \in SeqsUpTo(NormAlphabet, MaxRawLen), d \in {DomC, DomAC}}
    \cup {<<c, DomExample>> : c \in {RawWildFoo, DomExample, RawBadLabel}}
    \cup {<<Rep("a", n) \o <<".">> \o DomC, DomC>> : n \in {MaxMid + 2, MaxMid + 3}}
    \cup {<<<<"b", ".">> \o Rep("-", n) \o <<".">> \o DomC, DomC>> : n \in {1}}

\* the scan's variables while a specification does not run scan_domain
ScanOff ==
    /\ variant = "none"
    /\ spc = "off"
    /\ src = <<>>
    /\ all_subs = {}
    /\ probe = <<>>
    /\ live_subs = <<>>
    /\ live_set = {}
    /\ raised = FALSE

\* check_wayback's variables while a specification does not run it alone
WaybackOff ==
    /\ archive = <<>>
    /\ year_now = 0
    /\ years_arg = 0
    /\ snapshot = <<>>
    /\ wpc = "off"

\* dns_ans, dns_out, dpc while a specification does not use them
DnsOff ==
    /\ dns_ans = "off"
    /\ dns_out = "off"
    /\ dpc = "off"

\* main_variant, line, main_domain, mpc while a specification does not use them
MainOff ==
    /\ main_variant = "off"
    /\ line = "off"
    /\ main_domain = "off"
    /\ mpc = "off"

\* pool_variant, pool_n, pool_todo, pool_queued, pool_running, pool_done while a specification does not use them
PoolOff ==
    /\ pool_variant = "off"
    /\ pool_n = "off"
    /\ pool_todo = "off"
    /\ pool_queued = "off"
    /\ pool_running = "off"
    /\ pool_done = "off"

NormInit ==
    /\ \E in \in NormInputs : raw = in[1] /\ dom = in[2]
    /\ cleaned = None
    /\ npc = "start"
    /\ ScanOff
    /\ WaybackOff
    /\ DnsOff
    /\ MainOff
    /\ PoolOff

NormClean ==
    /\ npc = "start"
    /\ cleaned' = clean_subdomain(raw, dom)
    /\ npc' = "done"
    /\ UNCHANGED <<poolVars, mainVars, dnsVars, raw, dom, scanVars, waybackVars>>

NormNext == NormClean

SpecNorm == NormInit /\ [][NormNext]_vars

-----------------------------------------------------------------------------
(* Source adapters: response texts and their parsing *)

\* the domain handed to scan_domain
ScanDomain == <<"b", ".", "c">>

\* [a-zA-Z0-9._-], the character class of the adapters' patterns
PatternClass == LowerSet \cup UpperSet \cup DigitSet \cup {".", "_", "-"}

\* text[i..] begins with lit; ci: under re.I
LitAt(text, i, lit, ci) ==
    /\ i + Len(lit) - 1 <= Len(text)
    /\ \A k \in 1..Len(lit) :
          IF ci THEN LowerChar(text[i + k - 1]) = LowerChar(lit[k])
                ELSE text[i + k - 1] = lit[k]

\* One match attempt at position i of the pattern
\*     [a-zA-Z0-9._-]+\.<domain>           (anchored = FALSE, v2 and script)
\*     >([a-z0-9._-]+\.<domain>)<  re.I    (anchored = TRUE,  v3 RapidDNS)
\* The "+" is greedy: the longest run that still lets the rest match.
\* [found, group, next]: next is the position after the whole match.
MatchAt(text, i, domain, anchored) ==
    LET start  == IF anchored THEN i + 1 ELSE i
        dotdom == <<".">> \o domain
        opened == ~anchored \/ (i <= Len(text) /\ text[i] = ">")
        ends   == {m \in start..Len(text) :
                     /\ \A k \in start..m : text[k] \in PatternClass
                     /\ LitAt(text, m + 1, dotdom, anchored)
                     /\ anchored => LitAt(text, m + 1 + Len(dotdom), <<"<">>, FALSE)}
    IN  IF ~opened \/ ends = {}
        THEN [found |-> FALSE, group |-> <<>>, next |-> i + 1]
        ELSE LET m == SetMax(ends)
                 e == m + Len(dotdom)
             IN  [found |-> TRUE, group |-> SubSeq(text, start, e),
                  next |-> IF anchored THEN e + 2 ELSE e + 1]

\* pattern.findall(text): the non-overlapping matches, left to right
RECURSIVE FindallFrom(_, _, _, _)
FindallFrom(text, i, domain, anchored) ==
    IF i > Len(text) THEN <<>>
    ELSE LET m == MatchAt(text, i, domain, anchored)
         IN  IF m.found
             THEN <<m.group>> \o FindallFrom(text, m.next, domain, anchored)
             ELSE FindallFrom(text, i + 1, domain, anchored)

findall(text, domain, anchored) == FindallFrom(text, 1, domain, anchored)

\* str.split("\n")
RECURSIVE split_lines(_)
split_lines(s) ==
    IF \A i \in DOMAIN s : s[i] # "\n" THEN <<s>>
    ELSE LET d == SetMin({i \in DOMAIN s : s[i] = "\n"})
         IN  <<SubSeq(s, 1, d - 1)>> \o split_lines(SubSeq(s, d + 1, Len(s)))

SeqRange(q) == {q[i] : i \in DOMAIN q}

\* the hosts clean_subdomain accepts among the candidates
CleanAll(cands, domain) ==
    {clean_subdomain(c, domain).host :
        c \in {x \in cands : clean_subdomain(x, domain).valid}}

\* A response body as json.loads sees it: json = FALSE when json.loads raises;
\* else data, a list whose items are objects with name_value and common_name
\* (dict = TRUE; a missing field is "") or something else (dict = FALSE, on
\* which item.get raises).
RawText(chars) == [json |-> FALSE, data |-> <<>>, chars |-> chars]
JsonText(data) == [json |-> TRUE, data |-> data, chars |-> <<>>]
Entry(nv, cn) == [dict |-> TRUE, name_value |-> nv, common_name |-> cn]
NotEntry == [dict |-> FALSE, name_value |-> <<>>, common_name |-> <<>>]

\* src/subsonic.py get_subdomains_from_crtsh, lines 90-99: the items before the
\* first one that raises are kept ("except: pass", then "return subs")
RECURSIVE crtsh_items(_, _)
crtsh_items(data, domain) ==
    IF data = <<>> \/ ~Head(data).dict THEN {}
    ELSE LET item == Head(data)
             values == SeqRange(split_lines(item.name_value))
                       \cup SeqRange(split_lines(item.common_name))
         IN  CleanAll(values, domain) \cup crtsh_items(Tail(data), domain)

get_subdomains_from_crtsh(text, domain) ==
    IF ~text.json THEN {} ELSE crtsh_items(text.data, domain)

\* src/subsonic.py get_subdomains_from_rapiddns, lines 103-109
get_subdomains_from_rapiddns(text, domain) ==
    IF text.chars = <<>> THEN {}
    ELSE CleanAll(SeqRange(findall(text.chars, domain, TRUE)), domain)

\* src/scansubv2.py and src/script/subsonic.py valid_subdomain
\* re.match(r"^[a-zA-Z0-9.-]+$", sub)
re_match_loose(sub) ==
    \E e \in 1..Len(sub) :
        /\ \A k \in 1..e : sub[k] \in PatternClass \ {"_"}
        /\ AtDollar(sub, e + 1)

valid_subdomain_v2(sub, domain) ==
    /\ str_endswith(sub, <<".">> \o domain)
    /\ Len(sub) > Len(domain)
    /\ re_match_loose(sub)

\* the matches get_subdomains keeps, lower-cased, in the order found
kept_matches(chars, domain) ==
    LET found == findall(chars, domain, FALSE)
        kept  == SelectSeq(found, LAMBDA sub : valid_subdomain_v2(sub, domain))
    IN  [i \in DOMAIN kept |-> str_lower(kept[i])]

-----------------------------------------------------------------------------
(* scan_domain, first half: the sources are fetched and merged *)

Variants == {"v3", "v2", "script"}

\* v3: SOURCES (src/subsonic.py:111). v2 and script list seven URLs that all
\* run the same get_subdomains; two of them are modelled.
Sources == {"crtsh", "rapiddns"}

\* one request's outcome: an exception (or timeout), or a response
ExcOut == [exc |-> TRUE, status |-> 0, text |-> RawText(<<>>)]
Resp(status, text) == [exc |-> FALSE, status |-> status, text |-> text]
NoOut == [exc |-> FALSE, status |-> 0, text |-> RawText(<<>>)]

HostA == <<"a", ".">> \o ScanDomain
HostW == <<"w", ".">> \o ScanDomain
HostEmptyLabel == <<"x", ".", ".">> \o ScanDomain

\* ">a.b.c<"
TextOne == RawText(<<">">> \o HostA \o <<"<">>)
\* ">W.b.c<>x..b.c<>y_z.b.c<"
TextMixed == RawText(<<">", "W", ".">> \o ScanDomain \o <<"<", ">">> \o HostEmptyLabel
                     \o <<"<", ">", "y", "_", "z", ".">> \o ScanDomain \o <<"<">>)
\* "<html>"
TextHtml == RawText(<<"<", "h", "t", "m", "l", ">">>)
\* [{"name_value": "a.b.c\n*.W.b.c", "common_name": "a.b.c"}]
JsonOne == JsonText(<<Entry(HostA \o <<"\n", "*", ".", "W", ".">> \o ScanDomain, HostA)>>)
\* [{"name_value": "w.b.c"}, 7, {"name_value": "a.b.c"}]
JsonBroken == JsonText(<<Entry(HostW, <<>>), NotEntry, Entry(HostA, <<>>)>>)

FetchOutcomes(v, a) ==
    IF v = "v3" /\ a = "crtsh"
    THEN {ExcOut, Resp(200, JsonOne), Resp(200, JsonBroken), Resp(200, TextHtml),
          Resp(503, JsonOne)}
    ELSE IF v = "v3"
    THEN {ExcOut, Resp(200, TextOne), Resp(200, TextMixed), Resp(404, TextOne)}
    ELSE {ExcOut, Resp(200, TextOne), Resp(200, TextMixed), Resp(404, TextOne),
          Resp(503, TextOne)}

\* a retry budget of three requests
Retries_three(v) == IF v = "v3" THEN 1 ELSE 3

\* fetch_url's retries (v2: src/scansubv2.py:19, script: src/script/subsonic.py:37);
\* v3's fetch_url makes one request
Retries(v) == IF v = "v3" THEN 1 ELSE 2

\* fetch_url after a request with outcome out, the n-th of the call:
\* [final, none, r]: final = FALSE when the loop goes on to another request;
\* none = TRUE when it returns None (v3: ""); r is the response returned.
fetch_url(v, out, n) ==
    LET returns == CASE v = "v3"     -> ~out.exc
                     [] v = "v2"     -> ~out.exc /\ out.status < 500
                     [] v = "script" -> ~out.exc
    IN  IF returns THEN [final |-> TRUE, none |-> FALSE, r |-> out]
        ELSE [final |-> n >= Retries(v), none |-> TRUE, r |-> NoOut]

\* bool(r) of a requests.Response: r.ok, status below 400
ResponseTruthy(r) == r.status < 400

\* what the source's worker yields from what fetch_url returned: for v2 and
\* script the kept matches in the order found (script adds them one by one),
\* for v3 and v2 the set "subs"
SourceMatches(v, a, got, domain) ==
    IF got.none THEN <<>>
    ELSE IF ResponseTruthy(got.r) /\ got.r.status = 200
    THEN kept_matches(got.r.text.chars, domain)
    ELSE <<>>

SourceSubs(v, a, got, domain) ==
    CASE v = "v3" /\ a = "crtsh" ->
            get_subdomains_from_crtsh(IF got.none THEN RawText(<<>>) ELSE got.r.text, domain)
      [] v = "v3" /\ a # "crtsh" ->
            get_subdomains_from_rapiddns(IF got.none THEN RawText(<<>>) ELSE got.r.text, domain)
      [] OTHER -> SeqRange(SourceMatches(v, a, got, domain))

\* set.update restricted to its argument (a lost update of the earlier sources)
set_assign(s, t) == t

\* set.update
set_update(s, t) == s \cup t

SrcInit == [pc |-> "fetch", n |-> 0, last |-> NoOut, fut |-> {}, todo |-> <<>>,
            taken |-> FALSE]

ScanInit ==
    /\ variant \in Variants
    /\ spc = "collect"
    /\ src = [a \in Sources |-> SrcInit]
    /\ all_subs = {}
    /\ probe = <<>>
    /\ live_subs = <<>>
    /\ live_set = {}
    /\ raised = FALSE
    /\ raw = <<>> /\ dom = <<>> /\ cleaned = None /\ npc = "off"
    /\ WaybackOff
    /\ DnsOff
    /\ MainOff
    /\ PoolOff

\* one request of the source's fetch_url and, when fetch_url returns, the rest
\* of the source's worker up to its result (v3, v2) or its matches (script)
FetchAttempt(a) ==
    /\ spc = "collect"
    /\ src[a].pc = "fetch"
    /\ \E out \in FetchOutcomes(variant, a) :
          LET n   == src[a].n + 1
              got == fetch_url(variant, out, n)
          IN  src' = [src EXCEPT ![a] =
                  IF ~got.final
                  THEN [@ EXCEPT !.n = n, !.last = out]
                  ELSE IF variant = "script"
                  THEN LET m == SourceMatches(variant, a, got, ScanDomain)
                       IN  [@ EXCEPT !.n = n, !.last = out, !.todo = m,
                                     !.pc = IF m = <<>> THEN "done" ELSE "add"]
                  ELSE [@ EXCEPT !.n = n, !.last = out, !.pc = "done",
                                 !.fut = SourceSubs(variant, a, got, ScanDomain)]]
    /\ UNCHANGED <<poolVars, mainVars, dnsVars, normVars, waybackVars, variant, spc, all_subs, probe, live_subs, live_set, raised>>

\* script: the worker's subdomains_set.add(subdomain.lower()) of its next match
ScriptAdd(a) ==
    /\ spc = "collect"
    /\ variant = "script"
    /\ src[a].pc = "add"
    /\ all_subs' = all_subs \cup {Head(src[a].todo)}
    /\ src' = [src EXCEPT ![a].todo = Tail(@),
                          ![a].pc = IF Tail(src[a].todo) = <<>> THEN "done" ELSE "add"]
    /\ UNCHANGED <<poolVars, mainVars, dnsVars, normVars, waybackVars, variant, spc, probe, live_subs, live_set, raised>>

\* v3, v2: the as_completed loop's all_subs.update(f.result())
Collect(a) ==
    /\ spc = "collect"
    /\ variant \in {"v3", "v2"}
    /\ src[a].pc = "done"
    /\ ~src[a].taken
    /\ all_subs' = set_update(all_subs, src[a].fut)
    /\ src' = [src EXCEPT ![a].taken = TRUE]
    /\ UNCHANGED <<poolVars, mainVars, dnsVars, normVars, waybackVars, variant, spc, probe, live_subs, live_set, raised>>

\* the first pool left as soon as one source is through
Collected_first ==
    \E a \in Sources : src[a].pc = "done" /\ (variant # "script" => src[a].taken)

\* every source's future was consumed (v3, v2) or the pool was shut down (script)
Collected ==
    \A a \in Sources : src[a].pc = "done" /\ (variant # "script" => src[a].taken)


-----------------------------------------------------------------------------
(* dns_resolve, probe_subdomain / probe_url, check_wayback *)

\* the record types with CNAME asked first
RTypes_cname_first == <<"CNAME", "A", "AAAA", "MX">>

\* for rtype in ['A','CNAME','AAAA','MX']
RTypes == <<"A", "CNAME", "AAAA", "MX">>

\* what resolver.resolve does for one record type: "rrset" (an answer with
\* records), "empty" (answers.rrset is None) or "error" (it raises)
DnsReplies == {"rrset", "empty", "error"}

\* src/subsonic.py dns_resolve: the loop from the i-th type on;
\* [ok, queried]: the result and the types queried
RECURSIVE dns_loop(_, _)
dns_loop(ans, i) ==
    IF i > Len(RTypes) THEN [ok |-> FALSE, queried |-> RTypes]
    ELSE IF ans[RTypes[i]] = "rrset" THEN [ok |-> TRUE, queried |-> SubSeq(RTypes, 1, i)]
    ELSE dns_loop(ans, i + 1)

dns_resolve(ans) == dns_loop(ans, 1)

\* one HEAD/GET: not attempted, an exception, or a response with a status
HttpNone == [k |-> "none", status |-> 0]
HttpExc == [k |-> "exc", status |-> 0]
HttpResp(status) == [k |-> "resp", status |-> status]
HttpOutcomes == {HttpExc} \cup {HttpResp(st) : st \in {101, 200, 400}}

\* a probe's return value: None, or scheme + sub
NoneRes == [scheme |-> "None", host |-> <<>>]
Pending == [scheme |-> "pending", host |-> <<>>]
Url(scheme, h) == [scheme |-> scheme, host |-> h]

\* the status test of the probe: v3 "resp.status_code < 400",
\* v2 and script "200 <= status_code < 400"
StatusLive(v, status) ==
    IF v = "v3" THEN status < 400 ELSE 200 <= status /\ status < 400

\* a handler that lets the exception out of the probe
on_request_exception_raise == "raise"

\* the handler of the request's try: "except: continue" in every variant
on_request_exception == "continue"

\* the probe with the loop over the schemes cut to its first turn
after_request_nofallback(v, scheme, out, h) ==
    IF out.k = "resp" /\ StatusLive(v, out.status)
    THEN [pc |-> "done", res |-> Url(scheme, h), exc |-> FALSE]
    ELSE [pc |-> "done", exc |-> FALSE,
          res |-> IF v = "v3" THEN Url("dns-only://", h) ELSE NoneRes]

\* the probe after its request for scheme ended with out:
\* [pc, res, exc]: where the probe goes, what it returns, whether it raised
after_request(v, scheme, out, h) ==
    IF out.k = "resp" /\ StatusLive(v, out.status)
    THEN [pc |-> "done", res |-> Url(scheme, h), exc |-> FALSE]
    ELSE IF out.k = "exc" /\ on_request_exception # "continue"
    THEN [pc |-> "done", res |-> NoneRes, exc |-> TRUE]
    ELSE IF scheme = "https://"
    THEN [pc |-> "http", res |-> Pending, exc |-> FALSE]
    ELSE [pc |-> "done", exc |-> FALSE,
          res |-> IF v = "v3" THEN Url("dns-only://", h) ELSE NoneRes]

\* pools that run one probe more than max_workers
ProbeWorkers_one_more(v) ==
    CASE v = "v3" -> 101 [] v = "v2" -> 26 [] v = "script" -> 21

\* max_workers of the probe pool
ProbeWorkers(v) ==
    CASE v = "v3" -> 100 [] v = "v2" -> 25 [] v = "script" -> 20

\* the archive's answer to wayback/available: exc when the request or .json()
\* raises; closest = FALSE when archived_snapshots.closest is missing or empty;
\* timestamp and url are "" when missing
Archive(closest, timestamp, url) ==
    [exc |-> FALSE, closest |-> closest, timestamp |-> timestamp, url |-> url]
ArchiveExc == [exc |-> TRUE, closest |-> FALSE, timestamp |-> <<>>, url |-> <<>>]

DigitSeq == <<"0", "1", "2", "3", "4", "5", "6", "7", "8", "9">>
DigitVal(ch) == (CHOOSE i \in DOMAIN DigitSeq : DigitSeq[i] = ch) - 1

\* int(s) for a string of decimal digits; ok = FALSE when int raises
RECURSIVE DecimalValue(_)
DecimalValue(s) ==
    IF s = <<>> THEN 0
    ELSE 10 * DecimalValue(SubSeq(s, 1, Len(s) - 1)) + DigitVal(s[Len(s)])

parse_int(s) ==
    IF s # <<>> /\ \A i \in DOMAIN s : s[i] \in DigitSet
    THEN [ok |-> TRUE, val |-> DecimalValue(s)]
    ELSE [ok |-> FALSE, val |-> 0]

\* check_wayback's default "years"
WaybackYears == 2

NoSnapshot == [found |-> FALSE, url |-> <<>>]

\* the year test of check_wayback with ">=" turned into ">"
year_recent_strict(year, now, years) == year > now - years

\* int(timestamp[:4]) >= int(time.strftime("%Y")) - years
year_recent(year, now, years) == year >= now - years

\* src/subsonic.py check_wayback, given the archive's answer and the year
check_wayback(ar, now, years) ==
    IF ar.exc \/ ~ar.closest \/ ar.timestamp = <<>> THEN NoSnapshot
    ELSE LET first4 == SubSeq(ar.timestamp, 1, SetMin({4, Len(ar.timestamp)}))
             year   == parse_int(first4)
         IN  IF year.ok /\ year_recent(year.val, now, years) /\ ar.url # <<>>
             THEN [found |-> TRUE, url |-> ar.url]
             ELSE NoSnapshot

\* the year as "%Y" prints it, and a timestamp YYYYMMDDhhmmss of that year
YearDigits(y) ==
    <<DigitSeq[((y \div 1000) % 10) + 1], DigitSeq[((y \div 100) % 10) + 1],
      DigitSeq[((y \div 10) % 10) + 1], DigitSeq[(y % 10) + 1]>>
Timestamp(y) == YearDigits(y) \o <<"0", "6", "1", "5", "1", "2", "0", "0", "0", "0">>

SnapshotUrl == <<"w", "e", "b", "/", "1">>

\* the year of the run
ThisYear == 2026

\* the archive's answers during a scan
ScanArchives ==
    {ArchiveExc,
     Archive(TRUE, Timestamp(ThisYear - WaybackYears), SnapshotUrl),
     Archive(TRUE, Timestamp(ThisYear - WaybackYears - 1), SnapshotUrl)}

-----------------------------------------------------------------------------
(* SpecWayback: check_wayback applied to bounded inputs *)

\* snapshot years run from ThisYear - YearsBack to ThisYear + 1
YearsBack == 4
\* check_wayback's years runs from 0 to MaxYears
MaxYears == 3

\* "abcd0615120000", "20", "2o240615120000"
TimestampWords == <<"a", "b", "c", "d", "0", "6", "1", "5", "1", "2", "0", "0", "0", "0">>
TimestampShort == <<"2", "0">>
TimestampTypo == <<"2", "o", "2", "4", "0", "6", "1", "5", "1", "2", "0", "0", "0", "0">>

WaybackArchives ==
    {ArchiveExc, Archive(FALSE, <<>>, <<>>), Archive(TRUE, <<>>, SnapshotUrl),
     Archive(TRUE, TimestampWords, SnapshotUrl), Archive(TRUE, TimestampShort, SnapshotUrl),
     Archive(TRUE, TimestampTypo, SnapshotUrl)}
    \cup {Archive(TRUE, Timestamp(y), u) :
            y \in (ThisYear - YearsBack)..(ThisYear + 1), u \in {SnapshotUrl, <<>>}}

WaybackInit ==
    /\ archive \in WaybackArchives
    /\ year_now \in {ThisYear - 1, ThisYear}
    /\ years_arg \in 0..MaxYears
    /\ snapshot = NoSnapshot
    /\ wpc = "start"
    /\ raw = <<>> /\ dom = <<>> /\ cleaned = None /\ npc = "off"
    /\ ScanOff
    /\ DnsOff
    /\ MainOff
    /\ PoolOff

WaybackCheck ==
    /\ wpc = "start"
    /\ snapshot' = check_wayback(archive, year_now, years_arg)
    /\ wpc' = "done"
    /\ UNCHANGED <<poolVars, mainVars, dnsVars, normVars, scanVars, archive, year_now, years_arg>>

WaybackNext == WaybackCheck

SpecWayback == WaybackInit /\ [][WaybackNext]_vars

-----------------------------------------------------------------------------
(* SpecDns: dns_resolve applied to every combination of resolver replies *)

NoDnsOut == [ok |-> FALSE, queried |-> <<>>]

DnsInit ==
    /\ dns_ans \in [SeqRange(RTypes) -> DnsReplies]
    /\ dns_out = NoDnsOut
    /\ dpc = "start"
    /\ raw = <<>> /\ dom = <<>> /\ cleaned = None /\ npc = "off"
    /\ ScanOff
    /\ WaybackOff
    /\ MainOff
    /\ PoolOff

DnsResolve ==
    /\ dpc = "start"
    /\ dns_out' = dns_resolve(dns_ans)
    /\ dpc' = "done"
    /\ UNCHANGED <<poolVars, mainVars, normVars, scanVars, waybackVars, dns_ans>>

DnsNext == DnsResolve

SpecDns == DnsInit /\ [][DnsNext]_vars

-----------------------------------------------------------------------------
(* scan_domain, second half: the hostnames are probed *)

NotCalled == [called |-> FALSE, arg |-> NoneRes, ret |-> NoSnapshot]

ProbeInit == [pc |-> "queued", dns |-> "none", https |-> HttpNone, http |-> HttpNone,
              res |-> Pending, exc |-> FALSE, taken |-> FALSE, wb |-> NotCalled]

InFlight == Cardinality({h \in DOMAIN probe : probe[h].pc \in {"dns", "https", "http"}})

\* the first pool is left: v3 goes on to probe whatever it has; v2 skips the
\* probe and script returns [] when nothing was found
StartProbing ==
    /\ spc = "collect"
    /\ Collected
    /\ IF variant = "v3" \/ all_subs # {}
       THEN /\ spc' = "probe"
            /\ probe' = [h \in all_subs |-> ProbeInit]
       ELSE /\ spc' = "done"
            /\ UNCHANGED probe
    /\ UNCHANGED <<poolVars, mainVars, dnsVars, normVars, waybackVars, variant, src, all_subs, live_subs, live_set, raised>>

\* a pool worker takes the hostname's task
ProbeStart(h) ==
    /\ spc = "probe"
    /\ probe[h].pc = "queued"
    /\ InFlight < ProbeWorkers(variant)
    /\ probe' = [probe EXCEPT ![h].pc = IF variant = "v3" THEN "dns" ELSE "https"]
    /\ UNCHANGED <<poolVars, mainVars, dnsVars, normVars, waybackVars, variant, spc, src, all_subs, live_subs, live_set, raised>>

\* v3: probe_subdomain's dns_resolve(sub, resolver)
ProbeDns(h) ==
    /\ spc = "probe"
    /\ probe[h].pc = "dns"
    /\ \E ans \in [SeqRange(RTypes) -> DnsReplies] :
          LET ok == dns_resolve(ans).ok
          IN  probe' = [probe EXCEPT ![h].dns = IF ok THEN "ok" ELSE "fail",
                                     ![h].pc = IF ok THEN "https" ELSE "done",
                                     ![h].res = IF ok THEN Pending ELSE NoneRes]
    /\ UNCHANGED <<poolVars, mainVars, dnsVars, normVars, waybackVars, variant, spc, src, all_subs, live_subs, live_set, raised>>

\* one request of the probe, https first; script's probe_url adds the hostname
\* to unique_urls itself and returns None
ProbeRequest(h) ==
    /\ spc = "probe"
    /\ probe[h].pc \in {"https", "http"}
    /\ \E out \in HttpOutcomes :
          LET scheme == IF probe[h].pc = "https" THEN "https://" ELSE "http://"
              nxt    == after_request(variant, scheme, out, h)
              live   == nxt.pc = "done" /\ nxt.res \notin {NoneRes, Pending} /\ ~nxt.exc
          IN  /\ probe' = [probe EXCEPT
                    ![h].https = IF scheme = "https://" THEN out ELSE @,
                    ![h].http  = IF scheme = "http://" THEN out ELSE @,
                    ![h].pc    = nxt.pc,
                    ![h].exc   = nxt.exc,
                    ![h].res   = IF variant = "script" /\ nxt.pc = "done"
                                 THEN NoneRes ELSE nxt.res]
              /\ live_set' = IF variant = "script" /\ live
                             THEN live_set \cup {h} ELSE live_set
    /\ UNCHANGED <<poolVars, mainVars, dnsVars, normVars, waybackVars, variant, spc, src, all_subs, live_subs, raised>>

\* v3: one turn of the as_completed loop, lines 161-169
ConsumeV3(h) ==
    /\ spc = "probe"
    /\ variant = "v3"
    /\ probe[h].pc = "done"
    /\ ~probe[h].taken
    /\ IF probe[h].exc
       THEN /\ raised' = TRUE
            /\ spc' = "done"
            /\ probe' = [probe EXCEPT ![h].taken = TRUE]
            /\ UNCHANGED live_subs
       ELSE IF probe[h].res # NoneRes
       THEN /\ live_subs' = Append(live_subs, probe[h].res)
            /\ \E ar \in ScanArchives :
                  probe' = [probe EXCEPT
                      ![h].taken = TRUE,
                      ![h].wb = [called |-> TRUE, arg |-> probe[h].res,
                                 ret |-> check_wayback(ar, ThisYear, WaybackYears)]]
            /\ UNCHANGED <<spc, raised>>
       ELSE /\ probe' = [probe EXCEPT ![h].taken = TRUE]
            /\ UNCHANGED <<spc, raised, live_subs>>
    /\ UNCHANGED <<poolVars, mainVars, dnsVars, normVars, waybackVars, variant, src, all_subs, live_set>>

\* v2: one turn of the as_completed loop, lines 91-94
ConsumeV2(h) ==
    /\ spc = "probe"
    /\ variant = "v2"
    /\ probe[h].pc = "done"
    /\ ~probe[h].taken
    /\ probe' = [probe EXCEPT ![h].taken = TRUE]
    /\ IF probe[h].exc
       THEN raised' = TRUE /\ spc' = "done" /\ UNCHANGED live_set
       ELSE /\ live_set' = IF probe[h].res # NoneRes
                           THEN live_set \cup {probe[h].res} ELSE live_set
            /\ UNCHANGED <<spc, raised>>
    /\ UNCHANGED <<poolVars, mainVars, dnsVars, normVars, waybackVars, variant, src, all_subs, live_subs>>

\* the probe pool is left and scan_domain returns
Finish ==
    /\ spc = "probe"
    /\ \A h \in DOMAIN probe :
          probe[h].pc = "done" /\ (variant # "script" => probe[h].taken)
    /\ spc' = "done"
    /\ UNCHANGED <<poolVars, mainVars, dnsVars, normVars, waybackVars, variant, src, all_subs, probe, live_subs, live_set, raised>>

Next ==
    \/ \E a \in Sources : FetchAttempt(a)
    \/ \E a \in Sources : ScriptAdd(a)
    \/ \E a \in Sources : Collect(a)
    \/ StartProbing
    \/ \E h \in DOMAIN probe : ProbeStart(h)
    \/ \E h \in DOMAIN probe : ProbeDns(h)
    \/ \E h \in DOMAIN probe : ProbeRequest(h)
    \/ \E h \in DOMAIN probe : ConsumeV3(h)
    \/ \E h \in DOMAIN probe : ConsumeV2(h)
    \/ Finish

Spec == ScanInit /\ [][Next]_vars

\* the pools' threads are scheduled: while a step of the scan can be taken,
\* one eventually is (each request and each probe returns or times out)
SpecFair == ScanInit /\ [][Next]_vars /\ WF_vars(Next)


-----------------------------------------------------------------------------
(* SpecMain: the entry points read one line of domains.txt *)

\* str.startswith(prefix)
str_startswith(s, prefix) ==
    /\ Len(prefix) <= Len(s)
    /\ SubSeq(s, 1, Len(prefix)) = prefix

\* s with its first n characters dropped
DropFirst(s, n) == SubSeq(s, n + 1, Len(s))

\* str.replace(old, ""): every occurrence of old, left to right, is removed
RECURSIVE str_remove(_, _)
str_remove(s, old) ==
    IF s = <<>> THEN <<>>
    ELSE IF str_startswith(s, old) THEN str_remove(DropFirst(s, Len(old)), old)
    ELSE <<Head(s)>> \o str_remove(Tail(s), old)

\* str.rstrip("/")
RECURSIVE str_rstrip_slash(_)
str_rstrip_slash(s) ==
    IF s # <<>> /\ s[Len(s)] = "/"
    THEN str_rstrip_slash(SubSeq(s, 1, Len(s) - 1)) ELSE s

HttpPrefix == <<"h", "t", "t", "p", ":", "/", "/">>
HttpsPrefix == <<"h", "t", "t", "p", "s", ":", "/", "/">>
WwwPrefix == <<"w", "w", "w", ".">>

\* src/subsonic.py: re.sub(r"^https?://(www\.)?|^www\.", "", s); both
\* alternatives are anchored at the start, so one match at most is removed
sub_scheme_www(s) ==
    LET scheme == IF str_startswith(s, HttpsPrefix) THEN Len(HttpsPrefix)
                  ELSE IF str_startswith(s, HttpPrefix) THEN Len(HttpPrefix)
                  ELSE 0
    IN  IF scheme > 0
        THEN LET rest == DropFirst(s, scheme)
             IN  IF str_startswith(rest, WwwPrefix)
                 THEN DropFirst(rest, Len(WwwPrefix)) ELSE rest
        ELSE IF str_startswith(s, WwwPrefix) THEN DropFirst(s, Len(WwwPrefix))
        ELSE s

\* the expression of the list comprehension that builds the domains
domain_of_line(v, d) ==
    CASE v = "v3" -> sub_scheme_www(str_strip(d))
      [] v = "v2" ->
            str_remove(str_remove(str_remove(str_lower(str_strip(d)), HttpPrefix),
                                  HttpsPrefix), WwwPrefix)
      [] v = "script" ->
            str_rstrip_slash(
                str_remove(str_remove(str_remove(str_lower(str_strip(d)), HttpPrefix),
                                      HttpsPrefix), WwwPrefix))

\* the filter of the comprehension, "if d.strip()"
line_kept(d) == str_strip(d) # <<>>

\* the lines of domains.txt: a prefix, a name, an ending; and blank lines
LinePrefixes ==
    {<<>>, HttpPrefix, HttpsPrefix, WwwPrefix, HttpPrefix \o WwwPrefix,
     <<"H", "T", "T", "P", ":", "/", "/">>}
LineNames == {<<"a", ".", "c">>, <<"A", ".", "c">>, <<"a", "w", "w", "w", ".", "c">>}
LineEndings == {<<>>, <<"/">>, <<"/", "/">>, <<"\n">>, <<"/", "\n">>}
BlankLines == {<<"\n">>, <<" ", "\n">>, <<>>}
Lines ==
    {p \o n \o e : p \in LinePrefixes, n \in LineNames, e \in LineEndings} \cup BlankLines

Skipped == [skipped |-> TRUE, domain |-> <<>>]
Domain(d) == [skipped |-> FALSE, domain |-> d]

MainInit ==
    /\ main_variant \in Variants
    /\ line \in Lines
    /\ main_domain = Skipped
    /\ mpc = "start"
    /\ raw = <<>> /\ dom = <<>> /\ cleaned = None /\ npc = "off"
    /\ ScanOff
    /\ WaybackOff
    /\ DnsOff
    /\ PoolOff

\* one turn of the comprehension: the line is skipped or gives a domain
MainReadLine ==
    /\ mpc = "start"
    /\ main_domain' = IF line_kept(line)
                      THEN Domain(domain_of_line(main_variant, line))
                      ELSE Skipped
    /\ mpc' = "done"
    /\ UNCHANGED <<poolVars, normVars, scanVars, waybackVars, dnsVars, main_variant, line>>

MainNext == MainReadLine

SpecMain == MainInit /\ [][MainNext]_vars

-----------------------------------------------------------------------------
(* SpecPool: the probe pool with more hostnames than workers *)

\* the working set holds up to ExtraHosts hostnames more than the pool has workers
ExtraHosts == 2

PoolInit ==
    /\ pool_variant \in Variants
    /\ pool_n \in {0, 1, ProbeWorkers(pool_variant) + ExtraHosts}
    /\ pool_todo = pool_n
    /\ pool_queued = 0
    /\ pool_running = 0
    /\ pool_done = 0
    /\ raw = <<>> /\ dom = <<>> /\ cleaned = None /\ npc = "off"
    /\ ScanOff
    /\ WaybackOff
    /\ DnsOff
    /\ MainOff

\* executor.submit (v3, v2) or executor.map (script) hands the next hostname
\* of the set to the pool
PoolSubmit ==
    /\ pool_todo > 0
    /\ pool_todo' = pool_todo - 1
    /\ pool_queued' = pool_queued + 1
    /\ UNCHANGED <<normVars, scanVars, waybackVars, dnsVars, mainVars,
                   pool_variant, pool_n, pool_running, pool_done>>

\* a worker takes a waiting probe; the pool has max_workers threads
PoolStart ==
    /\ pool_queued > 0
    /\ pool_running < ProbeWorkers(pool_variant)
    /\ pool_queued' = pool_queued - 1
    /\ pool_running' = pool_running + 1
    /\ UNCHANGED <<normVars, scanVars, waybackVars, dnsVars, mainVars,
                   pool_variant, pool_n, pool_todo, pool_done>>

\* a running probe returns and its worker is free again
PoolFinish ==
    /\ pool_running > 0
    /\ pool_running' = pool_running - 1
    /\ pool_done' = pool_done + 1
    /\ UNCHANGED <<normVars, scanVars, waybackVars, dnsVars, mainVars,
                   pool_variant, pool_n, pool_todo, pool_queued>>

PoolNext == PoolSubmit \/ PoolStart \/ PoolFinish

SpecPool == PoolInit /\ [][PoolNext]_vars

-----------------------------------------------------------------------------
(* The normaliser's contract, stated without the code's operators *)

RECURSIVE TrimLeft(_, _)
TrimLeft(s, drop) ==
    IF s # <<>> /\ Head(s) \in drop THEN TrimLeft(Tail(s), drop) ELSE s

RECURSIVE TrimRight(_, _)
TrimRight(s, drop) ==
    IF s # <<>> /\ s[Len(s)] \in drop
    THEN TrimRight(SubSeq(s, 1, Len(s) - 1), drop) ELSE s

\* c lower-cased and trimmed, one leading "*." removed, then the leading and
\* trailing runs of "." removed
Canonical(c) ==
    LET low  == [i \in DOMAIN c |-> IF c[i] \in UpperSet THEN LowerChar(c[i]) ELSE c[i]]
        trim == TrimRight(TrimLeft(low, Whitespace), Whitespace)
        star == IF Len(trim) >= 2 /\ SubSeq(trim, 1, 2) = <<"*", ".">>
                THEN Tail(Tail(trim)) ELSE trim
    IN  TrimRight(TrimLeft(star, {"."}), {"."})

\* the dot-separated labels of h
RECURSIVE Labels(_)
Labels(h) ==
    IF \A i \in DOMAIN h : h[i] # "." THEN <<h>>
    ELSE LET d == SetMin({i \in DOMAIN h : h[i] = "."})
         IN  <<SubSeq(h, 1, d - 1)>> \o Labels(SubSeq(h, d + 1, Len(h)))

\* a label of 1 to 63 lower-case alphanumerics or hyphens, no hyphen first or last
LabelOk(l) ==
    /\ Len(l) >= 1
    /\ Len(l) <= MaxMid + 2
    /\ \A i \in DOMAIN l : l[i] \in AlnumLowerHyphen
    /\ l[1] # "-"
    /\ l[Len(l)] # "-"

\* h is a Hostname of domain d
IsHostname(h, d) ==
    /\ Len(h) > Len(d)
    /\ SubSeq(h, Len(h) - Len(d), Len(h)) = <<".">> \o d
    /\ \A i \in DOMAIN Labels(h) : LabelOk(Labels(h)[i])

FooExample == <<"f", "o", "o", ".">> \o DomExample

\* C1: clean_subdomain(c, d) returns the canonical form h of c exactly when h
\* ends with "." + d, is longer than d and has only well-formed labels, and
\* None for every other c; "*.Foo.example.com" gives "foo.example.com",
\* "example.com" and "bad_label!.example.com" give None.
C1_NormalizeContract ==
    npc = "done" =>
        /\ cleaned = IF IsHostname(Canonical(raw), dom)
                     THEN Some(Canonical(raw)) ELSE None
        /\ (raw = RawWildFoo /\ dom = DomExample) => cleaned = Some(FooExample)
        /\ (raw \in {DomExample, RawBadLabel} /\ dom = DomExample) => cleaned = None

\* a wildcard candidate in upper case was canonicalised and accepted
C1_Witness ==
    /\ npc = "done"
    /\ raw = <<"*", ".", "A", ".", "c">>
    /\ dom = DomC
    /\ cleaned = Some(<<"a", ".", "c">>)

-----------------------------------------------------------------------------
(* The scan's claims *)

\* what fetch_url returned to the source's worker, from its last request
Fetched(a) == fetch_url(variant, src[a].last, src[a].n)

\* the validated candidates of the source, from the response it got
Contribution(a) == SourceSubs(variant, a, Fetched(a), ScanDomain)

\* C2: in every reachable state of a scan, in each variant, every element of
\* the working set is a valid Hostname of the scanned domain: it ends with
\* "." + domain, is longer than the domain, and has only labels of 1 to 63
\* lower-case alphanumerics or hyphens with no hyphen first or last.
C2_WorkingSetValid ==
    \A h \in all_subs : IsHostname(h, ScanDomain)

\* C3: once the sources are merged, the working set is the union over the
\* sources of their validated candidates, whatever the order in which the
\* sources completed and their insertions interleaved; until then it holds
\* nothing else, and the probes leave it as it is.
C3_AggregationIsUnion ==
    /\ spc = "collect" =>
          all_subs \subseteq UNION {Contribution(a) : a \in {b \in Sources : src[b].pc # "fetch"}}
    /\ (spc \in {"probe", "done"} /\ \A h \in DOMAIN probe : probe[h].pc = "queued") =>
          all_subs = UNION {Contribution(a) : a \in Sources}
    /\ spc \in {"probe", "done"} => all_subs = DOMAIN probe

\* both sources gave hostnames, one of them in common, one from one source only
C3_Witness ==
    /\ spc = "done"
    /\ \E a, b \in Sources :
          /\ a # b
          /\ Contribution(a) \cap Contribution(b) # {}
          /\ Contribution(a) \ Contribution(b) # {}
    /\ all_subs = {HostA, HostW}

\* the source failed: an exception or timeout, a response other than 200, or
\* a body whose parsing raised
SourceFailed(a) ==
    \/ src[a].last.exc
    \/ src[a].last.status # 200
    \/ variant = "v3" /\ a = "crtsh"
         /\ (~src[a].last.text.json
             \/ \E i \in DOMAIN src[a].last.text.data : ~src[a].last.text.data[i].dict)

\* C4: a source that failed contributes the empty set, the aggregation does
\* not raise, and the working set still holds every valid candidate of each
\* other source.
C4_FailedSourceContributesNothing ==
    spc \in {"probe", "done"} =>
        \A a \in Sources :
            SourceFailed(a) =>
                /\ Contribution(a) = {}
                /\ ~raised
                /\ \A b \in Sources \ {a} : Contribution(b) \subseteq all_subs

\* C5: probe_subdomain returns exactly one of None, "dns-only://host",
\* "https://host", "http://host" for every outcome of the DNS check and of the
\* two requests, never raises, and is never stuck before it returns.
C5_ProbeTotal ==
    variant = "v3" =>
        /\ ~raised
        /\ \A h \in DOMAIN probe :
              /\ ~probe[h].exc
              /\ probe[h].pc = "done" =>
                    probe[h].res \in {NoneRes, Url("dns-only://", h),
                                      Url("https://", h), Url("http://", h)}
              /\ probe[h].pc # "done" =>
                    /\ probe[h].res = Pending
                    /\ spc = "probe" =>
                          ENABLED (ProbeStart(h) \/ ProbeDns(h) \/ ProbeRequest(h))

\* both requests raised and the probe returned "dns-only://host"
C5_Witness ==
    /\ variant = "v3"
    /\ \E h \in DOMAIN probe :
          /\ probe[h].pc = "done"
          /\ probe[h].https = HttpExc
          /\ probe[h].http = HttpExc
          /\ probe[h].res = Url("dns-only://", h)

\* C6: in every variant no HTTPS or HTTP request is made for a hostname whose
\* DNS check has not succeeded, and a hostname whose DNS check failed is
\* returned as None without a request.
C6_DnsGated ==
    \A h \in DOMAIN probe :
        /\ (probe[h].https # HttpNone \/ probe[h].http # HttpNone \/ probe[h].pc \in {"https", "http"})
              => probe[h].dns = "ok"
        /\ probe[h].dns = "fail" =>
              probe[h].res = NoneRes /\ probe[h].https = HttpNone /\ probe[h].http = HttpNone

\* a request that was answered with a status of 200 to 399
Succeeded(out) == out.k = "resp" /\ out.status >= 200 /\ out.status < 400
\* a request that raised or was answered with a failing status
Failed(out) == out.k = "exc" \/ (out.k = "resp" /\ out.status >= 400)

\* C7: for a hostname whose DNS check succeeded, probe_subdomain tries HTTPS
\* before HTTP; it returns "https://host" whenever the HTTPS request succeeds
\* and then makes no HTTP request; it makes the HTTP request only after the
\* HTTPS request failed and returns "http://host" only then; it returns
\* "dns-only://host" only when both failed; an exception in either request
\* is not propagated.
C7_HttpsBeforeHttp ==
    variant = "v3" =>
        \A h \in DOMAIN probe :
            /\ probe[h].pc = "http" => probe[h].https # HttpNone
            /\ Succeeded(probe[h].https) =>
                  /\ probe[h].pc = "done"
                  /\ probe[h].res = Url("https://", h)
                  /\ probe[h].http = HttpNone
            /\ (probe[h].http # HttpNone \/ probe[h].pc = "http") => Failed(probe[h].https)
            /\ probe[h].res = Url("http://", h) =>
                  Failed(probe[h].https) /\ probe[h].http # HttpNone
            /\ probe[h].res = Url("dns-only://", h) =>
                  Failed(probe[h].https) /\ Failed(probe[h].http)
            /\ ~probe[h].exc

\* the HTTPS request raised, the HTTP request was answered 200
C7_Witness ==
    /\ variant = "v3"
    /\ \E h \in DOMAIN probe :
          /\ probe[h].dns = "ok"
          /\ probe[h].https = HttpExc
          /\ probe[h].http = HttpResp(200)
          /\ probe[h].res = Url("http://", h)

\* C8: a hostname is returned as live for a scheme only if the response for
\* that scheme had a status s with 200 <= s < 400.
C8_LiveOnlyOn2xx3xx ==
    \A h \in DOMAIN probe :
        /\ probe[h].res = Url("https://", h) => Succeeded(probe[h].https)
        /\ probe[h].res = Url("http://", h) => Succeeded(probe[h].http)
        /\ (variant = "script" /\ h \in live_set) =>
              Succeeded(probe[h].https) \/ Succeeded(probe[h].http)

\* the result is Live
IsLive(res) == res.scheme \in {"https://", "http://"}

\* C9: check_wayback is invoked, and its record attached, only for hostnames
\* whose result is Live, never for one that is dns-only or unresolvable.
C9_EnrichOnlyLive ==
    \A h \in DOMAIN probe :
        probe[h].wb.called => IsLive(probe[h].res)

-----------------------------------------------------------------------------
(* check_wayback's contract *)

\* the year a timestamp YYYY... begins with, -1 when it does not begin with
\* four digits
TimestampYear(ts) ==
    IF Len(ts) >= 4 /\ \E y \in 0..9999 : YearDigits(y) = SubSeq(ts, 1, 4)
    THEN CHOOSE y \in 0..9999 : YearDigits(y) = SubSeq(ts, 1, 4)
    ELSE -1

\* C10: check_wayback returns a snapshot URL only if the archive's answer has
\* a closest snapshot whose timestamp year y satisfies y >= currentYear - years,
\* and then it is that snapshot's URL; for y < currentYear - years, for a
\* missing snapshot or timestamp and for a fetch or parse failure it returns
\* None; a snapshot within the window that has a URL is returned.
C10_WaybackRecency ==
    wpc = "done" =>
        LET y == TimestampYear(archive.timestamp)
        IN  /\ snapshot.found =>
                  /\ ~archive.exc /\ archive.closest
                  /\ y >= year_now - years_arg
                  /\ snapshot.url = archive.url
            /\ (archive.exc \/ ~archive.closest \/ archive.timestamp = <<>>
                  \/ y < year_now - years_arg) => snapshot = NoSnapshot
            /\ (~archive.exc /\ archive.closest /\ Len(archive.timestamp) >= 4
                  /\ y >= year_now - years_arg /\ archive.url # <<>>)
                  => snapshot = [found |-> TRUE, url |-> archive.url]

\* a snapshot of exactly currentYear - 2 is returned with years = 2
C10_Witness ==
    /\ wpc = "done"
    /\ years_arg = WaybackYears
    /\ archive = Archive(TRUE, Timestamp(year_now - WaybackYears), SnapshotUrl)
    /\ snapshot = [found |-> TRUE, url |-> SnapshotUrl]

-----------------------------------------------------------------------------
(* dns_resolve's contract *)

\* the record types in the order the specification gives them
QueryOrder == <<"A", "CNAME", "AAAA", "MX">>

\* the positions of QueryOrder whose type yields at least one record
Answering == {i \in 1..4 : dns_ans[QueryOrder[i]] = "rrset"}

\* C11: dns_resolve queries A, CNAME, AAAA, MX in this order; it returns true
\* at the first type that yields a record and queries no later type; it
\* returns false exactly when none of the four yields a record, a resolver
\* error on a type counting as no record for it and never reaching the caller.
C11_DnsOrder ==
    dpc = "done" =>
        /\ dns_out.ok \in BOOLEAN
        /\ dns_out.ok <=> Answering # {}
        /\ dns_out.queried =
              SubSeq(QueryOrder, 1, IF Answering = {} THEN 4 ELSE SetMin(Answering))

\* A raises, CNAME has no record, AAAA answers: true, and MX is not queried
C11_Witness ==
    /\ dpc = "done"
    /\ dns_ans = [t \in {"A", "CNAME", "AAAA", "MX"} |->
                    CASE t = "A" -> "error" [] t = "CNAME" -> "empty"
                      [] t = "AAAA" -> "rrset" [] OTHER -> "rrset"]
    /\ dns_out = [ok |-> TRUE, queried |-> <<"A", "CNAME", "AAAA">>]

-----------------------------------------------------------------------------
(* scan_domain's report *)

\* scan_domain has returned (v3, v2: "return live_subs" / "return live_subdomains")
Returned == spc = "done" /\ ~raised

\* the number of entries the returned report holds for the hostname
ReportEntries(h) ==
    IF variant = "v3"
    THEN Cardinality({i \in DOMAIN live_subs : live_subs[i].host = h})
    ELSE Cardinality({u \in live_set : u.host = h})

\* the returned report has no entry
ReportEmpty == IF variant = "v3" THEN live_subs = <<>> ELSE live_set = {}

\* C12: the report scan_domain returns holds exactly one result for each
\* discovered hostname; with no discovered hostname it is empty and nothing is
\* raised; with no live hostname it still lists every discovered hostname.
C12_ReportCoversAll ==
    (spc = "done" /\ variant \in {"v3", "v2"}) =>
        /\ ~raised
        /\ all_subs = {} => ReportEmpty
        /\ \A h \in all_subs : ReportEntries(h) = 1

\* the entries scan_domain hands to the cross-domain summary: live_subs (v3,
\* written to SUMMARY_FILE and kept in all_results), live_subdomains (v2,
\* merged into all_live_subs)
SummaryEntries ==
    IF variant = "v3" THEN SeqRange(live_subs)
    ELSE IF variant = "v2" THEN live_set
    ELSE {}

\* the hostname answered the entry's scheme with a success status
AnsweredLive(u) ==
    /\ u.host \in DOMAIN probe
    /\ \/ u.scheme = "https://" /\ Succeeded(probe[u.host].https)
       \/ u.scheme = "http://" /\ Succeeded(probe[u.host].http)

\* C13: every entry of the aggregate list of live hostnames is a hostname
\* whose result is Live, one that answered HTTPS or HTTP with a success
\* status; no dns-only or unresolvable hostname is in the list.
C13_SummaryOnlyLive ==
    \A u \in SummaryEntries : IsLive(u) /\ AnsweredLive(u)

-----------------------------------------------------------------------------
(* The entry point's domain strings *)

\* s without the prefix p, when it begins with p
WithoutPrefix(s, p) ==
    IF Len(p) <= Len(s) /\ SubSeq(s, 1, Len(p)) = p THEN SubSeq(s, Len(p) + 1, Len(s)) ELSE s

\* the line lower-cased and trimmed, a leading scheme and then a leading
\* "www." removed, the trailing slashes removed
CanonicalDomain(l) ==
    LET low    == [i \in DOMAIN TrimRight(TrimLeft(l, Whitespace), Whitespace) |->
                      LowerChar(TrimRight(TrimLeft(l, Whitespace), Whitespace)[i])]
        noHttp == IF WithoutPrefix(low, <<"h", "t", "t", "p", "s", ":", "/", "/">>) # low
                  THEN WithoutPrefix(low, <<"h", "t", "t", "p", "s", ":", "/", "/">>)
                  ELSE WithoutPrefix(low, <<"h", "t", "t", "p", ":", "/", "/">>)
        noWww  == WithoutPrefix(noHttp, <<"w", "w", "w", ".">>)
    IN  TrimRight(noWww, {"/"})

\* C14: every domain string handed to scan_domain is the input line
\* lower-cased, with a leading "http://", "https://" and "www." removed as a
\* prefix only, and with the trailing slashes removed; blank lines are skipped.
C14_DomainNormalised ==
    mpc = "done" =>
        IF TrimLeft(line, Whitespace) = <<>>
        THEN main_domain.skipped
        ELSE ~main_domain.skipped /\ main_domain.domain = CanonicalDomain(line)

-----------------------------------------------------------------------------
(* Failures of one hostname *)

\* the step changes the hostname's record
Touches(h) == probe'[h] # probe[h]

\* C15: a DNS error, an HTTP exception or timeout, or a failed archive lookup
\* for one hostname never raises out of scan_domain, never stops the probing
\* of the other hostnames (each unfinished probe can still take its next step
\* and scan_domain returns only when all are finished), and a step of one
\* hostname's probe leaves every other hostname's record, its classification
\* included, as it was.
C15_FailureIsolation ==
    /\ [](~raised)
    /\ [](spc = "done" => \A h \in DOMAIN probe : probe[h].pc = "done")
    /\ [](spc = "probe" =>
            \A h \in DOMAIN probe :
                probe[h].pc # "done" =>
                    ENABLED (ProbeStart(h) \/ ProbeDns(h) \/ ProbeRequest(h)))
    /\ [][spc = "probe" /\ spc' \in {"probe", "done"} /\ DOMAIN probe' = DOMAIN probe =>
            \A h \in DOMAIN probe :
                Touches(h) => \A g \in DOMAIN probe \ {h} : probe'[g] = probe[g]]_vars

\* one hostname's requests both raised, another one of the same scan is Live,
\* and the scan has returned
C15_Witness ==
    /\ spc = "done"
    /\ ~raised
    /\ \E h, g \in DOMAIN probe :
          /\ h # g
          /\ probe[h].https = HttpExc /\ probe[h].http = HttpExc
          /\ probe[g].res = Url("https://", g) \/ (variant = "script" /\ g \in live_set)

-----------------------------------------------------------------------------
(* Who writes the shared accumulators *)

\* the threads that are in code that inserts into the aggregated hostname
\* set: in v3 and v2 the thread of scan_domain merges the workers' results
\* (all_subs.update in the as_completed loop); in script each source worker
\* with matches left is in its own loop over subdomains_set.add, and no lock
\* is taken around it
AggregateWriters ==
    IF variant = "script"
    THEN {a \in Sources : src[a].pc = "add"}
    ELSE IF spc = "collect" /\ \E a \in Sources : src[a].pc = "done" /\ ~src[a].taken
    THEN {"scan_domain"}
    ELSE {}

\* C16: the aggregated hostname set is never being written by two worker
\* threads at once without synchronisation: in every reachable state at most
\* one thread is in code that inserts into it.
C16_SingleWriter ==
    Cardinality(AggregateWriters) <= 1

-----------------------------------------------------------------------------
(* The probe pool's ceiling *)

\* the worker ceilings the specification gives for the three scanners
Ceiling(v) == CASE v = "v3" -> 100 [] v = "v2" -> 25 [] v = "script" -> 20

\* C17: during probing the number of probes in flight never exceeds the
\* ceiling of the pool (100, 25, 20), whatever the number of hostnames, and
\* every discovered hostname is submitted exactly once: the submitted probes
\* are waiting, running or done, and with the ones still to submit they are
\* as many as the hostnames.
C17_PoolCeiling ==
    /\ pool_running <= Ceiling(pool_variant)
    /\ pool_todo + pool_queued + pool_running + pool_done = pool_n
    /\ pool_todo >= 0 /\ pool_queued >= 0 /\ pool_running >= 0 /\ pool_done >= 0

\* every worker of the pool is busy and a probe waits
C17_Witness ==
    /\ pool_running = Ceiling(pool_variant)
    /\ pool_queued > 0
    /\ ~ENABLED PoolStart

-----------------------------------------------------------------------------
(* The order of the scan's phases, and its termination *)

\* every source worker has returned, with a result or after its soft failure
AllSourcesReturned == \A a \in Sources : src[a].pc = "done"

\* a probe of the scan has started
SomeProbeStarted == \E h \in DOMAIN probe : probe[h].pc # "queued"

\* C18: the aggregation step completes only after every source worker has
\* returned; no probe starts before the aggregation step has completed; and,
\* each fetch and each probe terminating, scan_domain eventually terminates.
C18_PhasesAndTermination ==
    /\ [](spc \in {"probe", "done"} => AllSourcesReturned)
    /\ [](SomeProbeStarted => spc \in {"probe", "done"} /\ AllSourcesReturned)
    /\ <>(spc = "done")

\* the scan returned after both sources gave hostnames and all were probed
C18_Witness ==
    /\ spc = "done"
    /\ AllSourcesReturned
    /\ Cardinality(DOMAIN probe) >= 2
    /\ \A h \in DOMAIN probe : probe[h].pc = "done"

-----------------------------------------------------------------------------
(* fetch_url's attempts *)

\* the request failed: it raised, or in src/scansubv2.py it was answered with
\* a status of 500 or more
AttemptFailed(v, out) == out.exc \/ (v = "v2" /\ out.status >= 500)

\* the step is a request of the source's fetch_url
Requests(a) == src'[a].n = src[a].n + 1

\* C19: one call of fetch_url makes at most 2 requests; a request that
\* succeeds ends the loop at once; a second request is made only after the
\* first one failed; after two failed requests fetch_url returns None and
\* makes no further request.
C19_AtMostTwoAttempts ==
    /\ [](\A a \in Sources : src[a].n <= 2)
    /\ [][\A a \in Sources :
            Requests(a) =>
                /\ src[a].pc = "fetch"
                /\ ~AttemptFailed(variant, src'[a].last) => src'[a].pc # "fetch"
                /\ src'[a].n = 2 => AttemptFailed(variant, src[a].last)]_vars
    /\ [](\A a \in Sources :
            (src[a].n = 2 /\ AttemptFailed(variant, src[a].last)) =>
                src[a].pc # "fetch" /\ Fetched(a).none)

\* v2: the first request was answered 503 or raised, the second was answered
\* 503, and the source's worker ended with nothing
C19_Witness ==
    /\ variant = "v2"
    /\ \E a \in Sources :
          /\ src[a].n = 2
          /\ ~src[a].last.exc /\ src[a].last.status = 503
          /\ src[a].pc = "done"
          /\ Fetched(a).none
          /\ Contribution(a) = {}

-----------------------------------------------------------------------------
(* clean_subdomain applied to its own result *)

\* C20: a hostname that clean_subdomain returns is returned again when it is
\* handed back with the same domain: it is already lower-case, it has no
\* leading wildcard and no leading or trailing dot, and it is still accepted.
C20_CleanIdempotent ==
    (npc = "done" /\ cleaned.valid) =>
        LET h == cleaned.host
        IN  /\ clean_subdomain(h, dom) = Some(h)
            /\ \A i \in DOMAIN h : h[i] \notin UpperSet
            /\ h # <<>> /\ h[1] \notin {"*", "."} /\ h[Len(h)] # "."

\* " A.c." was cleaned to "a.c", which is cleaned to itself
C20_Witness ==
    /\ npc = "done"
    /\ raw = <<" ", "A", ".", "c", ".">>
    /\ dom = <<"c">>
    /\ cleaned = Some(<<"a", ".", "c">>)
    /\ clean_subdomain(cleaned.host, dom) = cleaned

=============================================================================
